---- MODULE Spec2Model ----
(***************************************************************************)
(* Gomoku engine of simple-gomoku: the Board state machine (game/board.go, *)
(* kept here as src/unnamed/part_000) and the heuristic agent              *)
(* (src/game/ai.go).                                                       *)
(*                                                                         *)
(* Spec          the Board API: PlaceStone and Undo called in any order.   *)
(* SpecCheckWin  CheckWin as a query on grids holding one line pattern.    *)
(* SpecAI        MakeMove called on a position, for every agent.           *)
(* SpecAgain     MakeMove called repeatedly on the same position.          *)
(* SpecScan      the scans, detectors and scorers of the agent as queries. *)
(* SpecUI        the game window: clicks, buttons and the AI goroutine.    *)
(***************************************************************************)
EXTENDS Integers, Sequences, FiniteSets, TLC

VARIABLES
    Grid,          \* Board.Grid         [BoardSize][BoardSize]Player
    CurrentTurn,   \* Board.CurrentTurn
    MoveHistory,   \* Board.MoveHistory  sequence of <<row, col>>
    GameFinished,  \* Board.GameFinished
    call,          \* the last call made on the board: [op, row, col]
    ret,           \* what that call returned
    snap,          \* the board as it was when that call was made
    ai,            \* the agent: [player, difficulty]
    aiMove,        \* the cell the last call returned, if it was MakeMove
    calls,         \* the number of MakeMove calls made on the board
    gw,            \* the GameWindow around the board and the agent
    hardScore      \* the last evaluatePositionHard call: [before, score]

vars ==
    <<Grid, CurrentTurn, MoveHistory, GameFinished, call, ret, snap, ai, aiMove,
      calls, gw, hardScore>>

-----------------------------------------------------------------------------
(* Program constants.                                                      *)

BoardSize == 15

WinCondition == 5

Empty == 0

Black == 1

White == 2

\* The four axes, in the order every scan of the program declares them.
directions == << <<1, 0>>, <<0, 1>>, <<1, 1>>, <<1, -1>> >>

Idx == 0 .. (BoardSize - 1)

Cells == Idx \X Idx

-----------------------------------------------------------------------------
(* Bounds of the model.                                                    *)

\* How many of the cells of PlayOrder a caller may name in PlaceStone.
NumPlayCells == 4

\* How many cells the line pattern of a CheckWin grid covers.
LineLen == 6

\* How many stones are played after the opening on a board given to MakeMove.
MaxStones == 1

\* SpecAgain: the number of MakeMove calls made on one position.
MaxCalls == 2

\* SpecScan: how many of the cells of ScoreOrder evaluatePositionHard is
\* asked about.
NumScoreCells == 5

\* SpecUI: how many of the cells of PlayOrder the human may click.
NumClickCells == 2

\* SpecUI: how many clicks of the human place a stone.
MaxClicks == 1

\* SpecUI: how many times the board of the window is replaced by New Game
\* and by the difficulty selection together.
MaxGames == 2

-----------------------------------------------------------------------------
(* The Board, as a value.                                                  *)

Board ==
    [Grid |-> Grid, CurrentTurn |-> CurrentTurn,
     MoveHistory |-> MoveHistory, GameFinished |-> GameFinished]

NewBoard ==
    [Grid |-> [r \in Idx |-> [c \in Idx |-> Empty]],
     CurrentTurn |-> Black,
     MoveHistory |-> << >>,
     GameFinished |-> FALSE]

isValidPosition(row, col) ==
    row >= 0 /\ row < BoardSize /\ col >= 0 /\ col < BoardSize

nextPlayer(b) == IF b.CurrentTurn = Black THEN White ELSE Black

\* One of the two counting loops of CheckWin: i runs from 1 while
\* i < WinCondition and stops at the first cell that is off the board or does
\* not hold `player`.
RECURSIVE CountRun(_, _, _, _, _, _, _)
CountRun(grid, player, row, col, dRow, dCol, i) ==
    IF i >= WinCondition
    THEN 0
    ELSE LET r == row + dRow * i
             c == col + dCol * i
         IN  IF ~isValidPosition(r, c) \/ grid[r][c] # player
             THEN 0
             ELSE 1 + CountRun(grid, player, row, col, dRow, dCol, i + 1)

CheckWinDir(grid, row, col, dir) ==
    LET player == grid[row][col]
        count  == 1 + CountRun(grid, player, row, col, dir[1], dir[2], 1)
                    + CountRun(grid, player, row, col, -dir[1], -dir[2], 1)
    IN  count >= WinCondition

CheckWin(grid, row, col) ==
    \E d \in 1 .. Len(directions) : CheckWinDir(grid, row, col, directions[d])

\* PlaceStoneErr without the test of the target cell.
PlaceStoneErr_NoOccupied(b, row, col) ==
    IF row < 0 \/ row >= BoardSize \/ col < 0 \/ col >= BoardSize
    THEN "position out of bounds"
    ELSE IF b.GameFinished
    THEN "game is already finished"
    ELSE "nil"

\* PlaceStoneErr without the test of the terminal flag.
PlaceStoneErr_NoFinished(b, row, col) ==
    IF row < 0 \/ row >= BoardSize \/ col < 0 \/ col >= BoardSize
    THEN "position out of bounds"
    ELSE IF b.Grid[row][col] # Empty
    THEN "position already occupied"
    ELSE "nil"

\* The error PlaceStone returns, "nil" for none; the checks in source order.
PlaceStoneErr(b, row, col) ==
    IF row < 0 \/ row >= BoardSize \/ col < 0 \/ col >= BoardSize
    THEN "position out of bounds"
    ELSE IF b.Grid[row][col] # Empty
    THEN "position already occupied"
    ELSE IF b.GameFinished
    THEN "game is already finished"
    ELSE "nil"

\* PlaceStoneBoard handing the move over after a winning stone too.
PlaceStoneBoard_AlwaysAdvance(b, row, col) ==
    IF PlaceStoneErr(b, row, col) # "nil"
    THEN b
    ELSE LET placed == [b EXCEPT !.Grid[row][col] = b.CurrentTurn,
                                 !.MoveHistory = Append(@, <<row, col>>)]
         IN  [placed EXCEPT !.GameFinished = CheckWin(placed.Grid, row, col),
                            !.CurrentTurn = nextPlayer(placed)]

\* The board PlaceStone leaves.
PlaceStoneBoard(b, row, col) ==
    IF PlaceStoneErr(b, row, col) # "nil"
    THEN b
    ELSE LET placed == [b EXCEPT !.Grid[row][col] = b.CurrentTurn,
                                 !.MoveHistory = Append(@, <<row, col>>)]
         IN  IF CheckWin(placed.Grid, row, col)
             THEN [placed EXCEPT !.GameFinished = TRUE]
             ELSE [placed EXCEPT !.CurrentTurn = nextPlayer(placed)]

UndoErr(b) == IF Len(b.MoveHistory) = 0 THEN "no moves to undo" ELSE "nil"

\* UndoBoard leaving the terminal flag as it finds it.
UndoBoard_KeepFlag(b) ==
    IF UndoErr(b) # "nil"
    THEN b
    ELSE LET lastMove == b.MoveHistory[Len(b.MoveHistory)]
         IN  [Grid |-> [b.Grid EXCEPT ![lastMove[1]][lastMove[2]] = Empty],
              MoveHistory |-> SubSeq(b.MoveHistory, 1, Len(b.MoveHistory) - 1),
              CurrentTurn |-> nextPlayer(b),
              GameFinished |-> b.GameFinished]

\* UndoBoard leaving the player to move as it finds it.
UndoBoard_KeepTurn(b) ==
    IF UndoErr(b) # "nil"
    THEN b
    ELSE LET lastMove == b.MoveHistory[Len(b.MoveHistory)]
         IN  [Grid |-> [b.Grid EXCEPT ![lastMove[1]][lastMove[2]] = Empty],
              MoveHistory |-> SubSeq(b.MoveHistory, 1, Len(b.MoveHistory) - 1),
              CurrentTurn |-> b.CurrentTurn,
              GameFinished |-> FALSE]

\* The board Undo leaves.
UndoBoard(b) ==
    IF UndoErr(b) # "nil"
    THEN b
    ELSE LET lastMove == b.MoveHistory[Len(b.MoveHistory)]
         IN  [Grid |-> [b.Grid EXCEPT ![lastMove[1]][lastMove[2]] = Empty],
              MoveHistory |-> SubSeq(b.MoveHistory, 1, Len(b.MoveHistory) - 1),
              CurrentTurn |-> nextPlayer(b),
              GameFinished |-> FALSE]

-----------------------------------------------------------------------------
(* The agent (src/game/ai.go).  Every scan that writes a hypothetical      *)
(* stone returns the grid it leaves behind next to its result, so that     *)
(* the grid MakeMove hands back is the product of every write and revert   *)
(* made on the way.                                                        *)

Easy == 0

Medium == 1

Hard == 2

MinInt32 == -2147483647 - 1

NoMove == <<-1, -1>>

NewAI(player, difficulty) == [player |-> player, difficulty |-> difficulty]

getOpponent(a) == IF a.player = Black THEN White ELSE Black

\* Go's integer division, which truncates toward zero.
Quo(a, b) == IF a >= 0 THEN a \div b ELSE -((-a) \div b)

Abs(x) == IF x >= 0 THEN x ELSE -x

max(a, b) == IF a > b THEN a ELSE b

min(a, b) == IF a < b THEN a ELSE b

\* grid with Grid[row][col] = v executed on it.
SetCell(grid, row, col, v) == [grid EXCEPT ![row][col] = v]

\* The walks of the pattern detectors: steps i, i+1, ... below `limit` along
\* (dRow, dCol) for as long as the cell is on the board and holds `player`.
RECURSIVE RunLen(_, _, _, _, _, _, _, _)
RunLen(grid, player, row, col, dRow, dCol, i, limit) ==
    IF i >= limit
    THEN 0
    ELSE LET r == row + dRow * i
             c == col + dCol * i
         IN  IF isValidPosition(r, c) /\ grid[r][c] = player
             THEN 1 + RunLen(grid, player, row, col, dRow, dCol, i + 1, limit)
             ELSE 0

\* How such a walk ends: "limit" when the loop runs out, "edge" when it steps
\* off the board, "space" on an empty cell, "stone" on any other cell.
WalkStop(grid, player, row, col, dRow, dCol, limit) ==
    LET i == 1 + RunLen(grid, player, row, col, dRow, dCol, 1, limit)
        r == row + dRow * i
        c == col + dCol * i
    IN  IF i >= limit THEN "limit"
        ELSE IF ~isValidPosition(r, c) THEN "edge"
        ELSE IF grid[r][c] = Empty THEN "space"
        ELSE "stone"

\* AxisCount whose backward walk negates the row step alone.
AxisCount_BackwardRowOnly(grid, row, col, dir, limit) ==
    1 + RunLen(grid, grid[row][col], row, col, dir[1], dir[2], 1, limit)
      + RunLen(grid, grid[row][col], row, col, -dir[1], dir[2], 1, limit)

\* count and space of one axis of hasOpenFour / hasOpenThree / hasDoubleThree.
AxisCount(grid, row, col, dir, limit) ==
    1 + RunLen(grid, grid[row][col], row, col, dir[1], dir[2], 1, limit)
      + RunLen(grid, grid[row][col], row, col, -dir[1], -dir[2], 1, limit)

AxisSpace(grid, row, col, dir, limit) ==
    (IF WalkStop(grid, grid[row][col], row, col, dir[1], dir[2], limit) = "space"
     THEN 1 ELSE 0)
    + (IF WalkStop(grid, grid[row][col], row, col, -dir[1], -dir[2], limit) = "space"
       THEN 1 ELSE 0)

AxisBlocked(grid, player, row, col, dir, limit) ==
    (IF WalkStop(grid, player, row, col, dir[1], dir[2], limit) \in {"edge", "stone"}
     THEN 1 ELSE 0)
    + (IF WalkStop(grid, player, row, col, -dir[1], -dir[2], limit) \in {"edge", "stone"}
       THEN 1 ELSE 0)

hasOpenFour(grid, row, col) ==
    \E d \in 1 .. Len(directions) :
        /\ AxisCount(grid, row, col, directions[d], 5) = 4
        /\ AxisSpace(grid, row, col, directions[d], 5) = 2

hasOpenThree(grid, row, col) ==
    \E d \in 1 .. Len(directions) :
        /\ AxisCount(grid, row, col, directions[d], 4) = 3
        /\ AxisSpace(grid, row, col, directions[d], 4) = 2

hasDoubleThree(grid, row, col) ==
    LET threeCount ==
            Cardinality({d \in 1 .. Len(directions) :
                /\ AxisCount(grid, row, col, directions[d], 4) = 3
                /\ AxisSpace(grid, row, col, directions[d], 4) = 2
                /\ AxisBlocked(grid, grid[row][col], row, col, directions[d], 4) = 0})
    IN  threeCount >= 2

\* IsThreatCell asking for three opponent stones on the axis instead of two.
IsThreatCell_CountThree(grid, opponent, i, j) ==
    \E d \in 1 .. Len(directions) :
        LET dir   == directions[d]
            count == RunLen(grid, opponent, i, j, dir[1], dir[2], 1, 4)
                     + RunLen(grid, opponent, i, j, -dir[1], -dir[2], 1, 4)
        IN  count >= 3 /\ AxisBlocked(grid, opponent, i, j, dir, 4) < 2

\* The test findThreatsMove makes on the empty cell (i, j).
IsThreatCell(grid, opponent, i, j) ==
    \E d \in 1 .. Len(directions) :
        LET dir   == directions[d]
            count == RunLen(grid, opponent, i, j, dir[1], dir[2], 1, 4)
                     + RunLen(grid, opponent, i, j, -dir[1], -dir[2], 1, 4)
        IN  count >= 2 /\ AxisBlocked(grid, opponent, i, j, dir, 4) < 2

\* The loops `for i ... for j ...` of findThreatsMove: row i from column j on,
\* then the rows from i on.
RECURSIVE findThreatsRow(_, _, _, _)
findThreatsRow(grid, opponent, i, j) ==
    IF j >= BoardSize
    THEN NoMove
    ELSE IF grid[i][j] = Empty /\ IsThreatCell(grid, opponent, i, j)
    THEN <<i, j>>
    ELSE findThreatsRow(grid, opponent, i, j + 1)

\* `found` is the cell the rows before i gave, NoMove when they gave none.
RECURSIVE findThreatsRows(_, _, _, _)
findThreatsRows(grid, opponent, i, found) ==
    IF i >= BoardSize \/ found[1] >= 0
    THEN found
    ELSE findThreatsRows(grid, opponent, i + 1,
                         findThreatsRow(grid, opponent, i, 0))

findThreatsMove(grid, a) == findThreatsRows(grid, getOpponent(a), 0, NoMove)

\* The four scans that try a stone of `player` on every empty cell.  `kind`
\* names the test made on the stone: "win", "four", "three" or "advanced".
ScanHit(kind, grid, i, j) ==
    CASE kind = "win"      -> CheckWin(grid, i, j)
      [] kind = "four"     -> hasOpenFour(grid, i, j)
      [] kind = "three"    -> hasOpenThree(grid, i, j)
      [] kind = "advanced" -> hasOpenFour(grid, i, j) \/ hasDoubleThree(grid, i, j)

\* ScanRow returning on a hit without taking its stone back.
RECURSIVE ScanRow_NoRevertOnHit(_, _, _, _, _)
ScanRow_NoRevertOnHit(kind, grid, player, i, j) ==
    IF j >= BoardSize
    THEN [move |-> NoMove, grid |-> grid]
    ELSE IF grid[i][j] # Empty
    THEN ScanRow_NoRevertOnHit(kind, grid, player, i, j + 1)
    ELSE LET placed == SetCell(grid, i, j, player)
         IN  IF ScanHit(kind, placed, i, j)
             THEN [move |-> <<i, j>>, grid |-> placed]
             ELSE ScanRow_NoRevertOnHit(kind, SetCell(placed, i, j, Empty),
                                        player, i, j + 1)

\* Their inner loop, row i from column j on: [move, grid].
RECURSIVE ScanRow(_, _, _, _, _)
ScanRow(kind, grid, player, i, j) ==
    IF j >= BoardSize
    THEN [move |-> NoMove, grid |-> grid]
    ELSE IF grid[i][j] # Empty
    THEN ScanRow(kind, grid, player, i, j + 1)
    ELSE LET placed == SetCell(grid, i, j, player)
         IN  IF ScanHit(kind, placed, i, j)
             THEN [move |-> <<i, j>>, grid |-> SetCell(placed, i, j, Empty)]
             ELSE ScanRow(kind, SetCell(placed, i, j, Empty), player, i, j + 1)

\* Their outer loop, the rows from i on.  `found` is what the rows before i
\* gave: [move, grid], the move NoMove when they found none.
RECURSIVE ScanRows(_, _, _, _)
ScanRows(kind, player, i, found) ==
    IF i >= BoardSize \/ found.move[1] >= 0
    THEN found
    ELSE ScanRows(kind, player, i + 1, ScanRow(kind, found.grid, player, i, 0))

findWinningMove(grid, player) ==
    ScanRows("win", player, 0, [move |-> NoMove, grid |-> grid])

findOpenFourMove(grid, player) ==
    ScanRows("four", player, 0, [move |-> NoMove, grid |-> grid])

findOpenThreeMove(grid, player) ==
    ScanRows("three", player, 0, [move |-> NoMove, grid |-> grid])

findAdvancedThreatMove(grid, player) ==
    ScanRows("advanced", player, 0, [move |-> NoMove, grid |-> grid])

\* The scoring rules that close evaluateDirection.
DirectionScore(myCount, empty, maxMySeq, maxOppSeq) ==
    (IF maxMySeq >= 4 THEN 2000
     ELSE IF maxMySeq = 3 /\ empty >= 2 THEN 1000
     ELSE IF maxMySeq = 2 /\ empty >= 3 THEN 100
     ELSE 0)
    + (IF maxOppSeq >= 3 THEN 1500
       ELSE IF maxOppSeq = 2 /\ empty >= 3 THEN 200
       ELSE 0)
    + myCount * 10
    + empty * 2

\* The loop of evaluateDirection from step i on, with its running counters.
RECURSIVE evaluateDirectionFrom(_, _, _, _, _, _, _, _, _, _, _, _, _)
evaluateDirectionFrom(grid, me, row, col, dRow, dCol, i, myCount, empty, maxMySeq, maxOppSeq, currentMySeq, currentOppSeq) ==
    IF i > 4
    THEN DirectionScore(myCount, empty, maxMySeq, maxOppSeq)
    ELSE LET r == row + dRow * i
             c == col + dCol * i
         IN  IF r < 0 \/ r >= BoardSize \/ c < 0 \/ c >= BoardSize
             THEN evaluateDirectionFrom(grid, me, row, col, dRow, dCol, i + 1,
                      myCount, empty, maxMySeq, maxOppSeq,
                      currentMySeq, currentOppSeq)
             ELSE IF grid[r][c] = me
             THEN evaluateDirectionFrom(grid, me, row, col, dRow, dCol, i + 1,
                      myCount + 1, empty,
                      max(maxMySeq, currentMySeq + 1), maxOppSeq,
                      currentMySeq + 1, 0)
             ELSE IF grid[r][c] = Empty
             THEN evaluateDirectionFrom(grid, me, row, col, dRow, dCol, i + 1,
                      myCount, empty + 1, maxMySeq, maxOppSeq, 0, 0)
             ELSE evaluateDirectionFrom(grid, me, row, col, dRow, dCol, i + 1,
                      myCount, empty, maxMySeq,
                      max(maxOppSeq, currentOppSeq + 1),
                      0, currentOppSeq + 1)

evaluateDirection(grid, a, row, col, dRow, dCol) ==
    evaluateDirectionFrom(grid, a.player, row, col, dRow, dCol, -4,
                          0, 0, 0, 0, 0, 0)

\* CenterDist measured from the corner (0,0).
CenterDist_FromCorner(row, col) == Abs(row) + Abs(col)

CenterDist(row, col) ==
    Abs(row - BoardSize \div 2) + Abs(col - BoardSize \div 2)

\* evaluatePosition on board b: [score, grid].
evaluatePosition(b, a, row, col) ==
    LET mine     == SetCell(b.Grid, row, col, a.player)
        cleared  == SetCell(mine, row, col, Empty)
        theirs   == SetCell(cleared, row, col, getOpponent(a))
        cleared2 == SetCell(theirs, row, col, Empty)
        axes     == evaluateDirection(cleared2, a, row, col, 1, 0)
                    + evaluateDirection(cleared2, a, row, col, 0, 1)
                    + evaluateDirection(cleared2, a, row, col, 1, 1)
                    + evaluateDirection(cleared2, a, row, col, 1, -1)
        lastDist == IF Len(b.MoveHistory) > 0
                    THEN LET lastMove == b.MoveHistory[Len(b.MoveHistory)]
                         IN  Abs(row - lastMove[1]) + Abs(col - lastMove[2])
                    ELSE 0
    IN  IF CheckWin(mine, row, col)
        THEN [score |-> 10000, grid |-> SetCell(mine, row, col, Empty)]
        ELSE IF CheckWin(theirs, row, col)
        THEN [score |-> 9000, grid |-> SetCell(theirs, row, col, Empty)]
        ELSE [score |-> axes - CenterDist(row, col) * 10 - lastDist * 5,
              grid |-> cleared2]

\* What evaluatePositionMedium adds to `base`, the [score, grid] of its call
\* of evaluatePosition.
MediumPatterns(base, a, row, col) ==
    LET mine     == SetCell(base.grid, row, col, a.player)
        cleared  == SetCell(mine, row, col, Empty)
        theirs   == SetCell(cleared, row, col, getOpponent(a))
        cleared2 == SetCell(theirs, row, col, Empty)
    IN  [score |-> base.score
                   + (IF hasOpenFour(mine, row, col) THEN 800 ELSE 0)
                   + (IF hasOpenThree(mine, row, col) THEN 400 ELSE 0)
                   + (IF hasOpenFour(theirs, row, col) THEN 700 ELSE 0)
                   + (IF hasOpenThree(theirs, row, col) THEN 300 ELSE 0),
         grid |-> cleared2]

\* evaluatePositionMedium: [score, grid].
evaluatePositionMedium(b, a, row, col) ==
    MediumPatterns(evaluatePosition(b, a, row, col), a, row, col)

\* The stones around (row, col) that evaluatePositionHard counts.
NearbyStones(grid, row, col) ==
    LET near == {p \in (-2 .. 2) \X (-2 .. 2) :
                    /\ isValidPosition(row + p[1], col + p[2])
                    /\ grid[row + p[1]][col + p[2]] # Empty}
        close == {p \in near : Abs(p[1]) + Abs(p[2]) <= 1}
    IN  3 * Cardinality(close) + Cardinality(near \ close)

OnBorder(row, col) ==
    row <= 1 \/ row >= BoardSize - 2 \/ col <= 1 \/ col >= BoardSize - 2

\* What evaluatePositionHard adds to `base`, the [score, grid] of its call
\* of evaluatePosition, before its border adjustment.
HardPatterns(base, a, row, col) ==
    LET mine     == SetCell(base.grid, row, col, a.player)
        cleared  == SetCell(mine, row, col, Empty)
        theirs   == SetCell(cleared, row, col, getOpponent(a))
        cleared2 == SetCell(theirs, row, col, Empty)
    IN  [score |-> base.score
                   + (IF hasOpenFour(mine, row, col) THEN 1200 ELSE 0)
                   + (IF hasDoubleThree(mine, row, col) THEN 1000 ELSE 0)
                   + (IF hasOpenThree(mine, row, col) THEN 600 ELSE 0)
                   + (IF hasOpenFour(theirs, row, col) THEN 1000 ELSE 0)
                   + (IF hasDoubleThree(theirs, row, col) THEN 800 ELSE 0)
                   + (IF hasOpenThree(theirs, row, col) THEN 500 ELSE 0)
                   - CenterDist(row, col) * 15
                   + NearbyStones(cleared2, row, col) * 10,
         grid |-> cleared2]

\* Its border adjustment of e, the [score, grid] so far.
HardBorder(e, row, col) ==
    [score |-> IF OnBorder(row, col) THEN Quo(e.score, 2) ELSE e.score,
     grid |-> e.grid]

\* evaluatePositionHard: [score, grid].
evaluatePositionHard(b, a, row, col) ==
    HardBorder(HardPatterns(evaluatePosition(b, a, row, col), a, row, col),
               row, col)

\* Step 7 of makeMediumMove and makeHardMove, the arg-max loops.  `tier`
\* picks the evaluation; `best` is [score, move, grid]: bestScore, bestMove
\* and the grid so far.
TierScore(tier, b, a, row, col) ==
    IF tier = Hard
    THEN evaluatePositionHard(b, a, row, col)
    ELSE evaluatePositionMedium(b, a, row, col)

\* `best` after cell (i, j) scored e: `if score > bestScore`.
BestAfter(best, e, i, j) ==
    IF e.score > best.score
    THEN [score |-> e.score, move |-> <<i, j>>, grid |-> e.grid]
    ELSE [best EXCEPT !.grid = e.grid]

\* Row i from column j on.
RECURSIVE BestRow(_, _, _, _, _, _)
BestRow(tier, b, a, i, j, best) ==
    IF j >= BoardSize
    THEN best
    ELSE IF best.grid[i][j] # Empty
    THEN BestRow(tier, b, a, i, j + 1, best)
    ELSE BestRow(tier, b, a, i, j + 1,
                 BestAfter(best,
                           TierScore(tier, [b EXCEPT !.Grid = best.grid], a, i, j),
                           i, j))

\* The rows from i on.
RECURSIVE BestRows(_, _, _, _, _)
BestRows(tier, b, a, i, best) ==
    IF i >= BoardSize
    THEN best
    ELSE BestRows(tier, b, a, i + 1, BestRow(tier, b, a, i, 0, best))

BestMove(tier, b, a) ==
    BestRows(tier, b, a, 0, [score |-> MinInt32, move |-> NoMove, grid |-> b.Grid])

\* What a strategy hands back: the cells it may return (several only for
\* the random draw of makeEasyMove), whether it may panic instead of
\* returning, and the grid it leaves.
Returns(move, grid) == [moves |-> {move}, panic |-> FALSE, grid |-> grid]

Stones(grid) == {p \in Idx \X Idx : grid[p[1]][p[2]] # Empty}

MinOf(S) == CHOOSE x \in S : \A y \in S : x <= y

MaxOf(S) == CHOOSE x \in S : \A y \in S : x >= y

\* The weight makeEasyMove gives the empty cell (i, j) whose evaluatePosition
\* score is `score`.
EasyWeight(b, score, i, j) ==
    LET last == IF Len(b.MoveHistory) > 0
                THEN b.MoveHistory[Len(b.MoveHistory)]
                ELSE <<BoardSize \div 2, BoardSize \div 2>>
        dist == Abs(i - last[1]) + Abs(j - last[2])
        centerDist == CenterDist(i, j)
        adjacent == Cardinality({p \in (-1 .. 1) \X (-1 .. 1) :
                        /\ isValidPosition(i + p[1], j + p[2])
                        /\ b.Grid[i + p[1]][j + p[2]] # Empty})
        w1 == 100 + score
              + (IF dist <= 2 THEN 100 ELSE IF dist <= 4 THEN 50 ELSE 0)
              + (IF centerDist <= 2 THEN 150 ELSE IF centerDist <= 4 THEN 80 ELSE 0)
              + 30 * adjacent
        w2 == IF adjacent = 0 THEN Quo(w1, 2) ELSE w1
    IN  IF OnBorder(i, j) THEN Quo(w2, 3) ELSE w2

\* Step 5 of makeEasyMove, the candidate loops over rows minRow .. maxRow and
\* columns minCol .. maxCol.  `found` is [moves, grid]: the sequence of
\* [row, col, weight] and the grid so far.
EasyAfter(b, found, e, i, j) ==
    [moves |-> Append(found.moves,
                      [row |-> i, col |-> j,
                       weight |-> EasyWeight([b EXCEPT !.Grid = e.grid],
                                             e.score, i, j)]),
     grid |-> e.grid]

\* EasyRow weighing every cell of the range, occupied or not.
RECURSIVE EasyRow_NoEmptyTest(_, _, _, _, _, _)
EasyRow_NoEmptyTest(b, a, i, j, maxCol, found) ==
    IF j > maxCol
    THEN found
    ELSE EasyRow_NoEmptyTest(b, a, i, j + 1, maxCol,
             EasyAfter(b, found,
                       evaluatePosition([b EXCEPT !.Grid = found.grid], a, i, j),
                       i, j))

RECURSIVE EasyRow(_, _, _, _, _, _)
EasyRow(b, a, i, j, maxCol, found) ==
    IF j > maxCol
    THEN found
    ELSE IF found.grid[i][j] # Empty
    THEN EasyRow(b, a, i, j + 1, maxCol, found)
    ELSE EasyRow(b, a, i, j + 1, maxCol,
                 EasyAfter(b, found,
                           evaluatePosition([b EXCEPT !.Grid = found.grid], a, i, j),
                           i, j))

RECURSIVE EasyRows(_, _, _, _, _, _, _)
EasyRows(b, a, i, maxRow, minCol, maxCol, found) ==
    IF i > maxRow
    THEN found
    ELSE EasyRows(b, a, i + 1, maxRow, minCol, maxCol,
                  EasyRow(b, a, i, minCol, maxCol, found))

\* The running sums of the weights: currentWeight after each move.
RECURSIVE RunningSums(_, _, _)
RunningSums(moves, n, sums) ==
    IF n > Len(moves)
    THEN sums
    ELSE RunningSums(moves, n + 1,
             Append(sums, (IF n = 1 THEN 0 ELSE sums[n - 1]) + moves[n].weight))

TotalWeight(moves) == RunningSums(moves, 1, << >>)[Len(moves)]

\* The cells the draw of makeEasyMove can return: move n is returned for the
\* drawn numbers r of 0 .. totalWeight - 1 that no earlier running sum
\* exceeds and the n-th running sum exceeds.
Drawn(moves) ==
    LET sums == RunningSums(moves, 1, << >>)
        totalWeight == sums[Len(moves)]
    IN  {<<moves[n].row, moves[n].col>> : n \in
            {n \in 1 .. Len(moves) :
                \E r \in {0} \cup {sums[m] : m \in 1 .. n - 1} :
                    /\ r >= 0
                    /\ r < totalWeight
                    /\ r < sums[n]
                    /\ \A m \in 1 .. n - 1 : sums[m] <= r}}

\* The closing loops of makeEasyMove: the first empty cell in row-major order.
FirstEmpty(grid) ==
    IF \E p \in Idx \X Idx : grid[p[1]][p[2]] = Empty
    THEN LET i == MinOf({r \in Idx : \E c \in Idx : grid[r][c] = Empty})
         IN  <<i, MinOf({c \in Idx : grid[i][c] = Empty})>>
    ELSE NoMove

\* Step 4 of makeEasyMove: the range of the stones, widened by two and kept
\* off the two outer rings.
RangeMinRow(grid) == max(2, MinOf({p[1] : p \in Stones(grid)}) - 2)

RangeMaxRow(grid) == min(BoardSize - 3, MaxOf({p[1] : p \in Stones(grid)}) + 2)

RangeMinCol(grid) == max(2, MinOf({p[2] : p \in Stones(grid)}) - 2)

RangeMaxCol(grid) == min(BoardSize - 3, MaxOf({p[2] : p \in Stones(grid)}) + 2)

EasyCandidates(b, a, grid) ==
    EasyRows(b, a, RangeMinRow(grid), RangeMaxRow(grid),
             RangeMinCol(grid), RangeMaxCol(grid),
             [moves |-> << >>, grid |-> grid])

\* What makeEasyMove does with its candidates `found`: the draw (rand.Intn
\* panics unless the total weight is positive), or the first empty cell when
\* there is no candidate.
EasyChoice(found) ==
    IF Len(found.moves) > 0
    THEN IF TotalWeight(found.moves) <= 0
         THEN [moves |-> {}, panic |-> TRUE, grid |-> found.grid]
         ELSE [moves |-> Drawn(found.moves), panic |-> FALSE, grid |-> found.grid]
    ELSE Returns(FirstEmpty(found.grid), found.grid)

\* makeEasyMove from its step 4 on, on the grid its scans left.
EasyPick(b, a, grid) ==
    IF Stones(grid) = {}
    THEN Returns(<<BoardSize \div 2, BoardSize \div 2>>, grid)
    ELSE EasyChoice(EasyCandidates(b, a, grid))

\* CascadeSteps with the block of the opponent's win tried before the own win.
CascadeSteps_BlockFirst(tier) ==
    CASE tier = Easy   -> <<"block", "win", "threats">>
      [] tier = Medium -> <<"block", "win", "four", "block four", "three",
                            "threats", "best">>
      [] tier = Hard   -> <<"block", "win", "advanced", "block advanced",
                            "three", "block three", "best">>

\* The scans each strategy tries in turn, returning the first cell found.
CascadeSteps(tier) ==
    CASE tier = Easy   -> <<"win", "block", "threats">>
      [] tier = Medium -> <<"win", "block", "four", "block four", "three",
                            "threats", "best">>
      [] tier = Hard   -> <<"win", "block", "advanced", "block advanced",
                            "three", "block three", "best">>

\* One of those scans on `grid`: [move, grid].
CascadeStep(tier, step, b, a, grid) ==
    CASE step = "win"            -> findWinningMove(grid, a.player)
      [] step = "block"          -> findWinningMove(grid, getOpponent(a))
      [] step = "four"           -> findOpenFourMove(grid, a.player)
      [] step = "block four"     -> findOpenFourMove(grid, getOpponent(a))
      [] step = "advanced"       -> findAdvancedThreatMove(grid, a.player)
      [] step = "block advanced" -> findAdvancedThreatMove(grid, getOpponent(a))
      [] step = "three"          -> findOpenThreeMove(grid, a.player)
      [] step = "block three"    -> findOpenThreeMove(grid, getOpponent(a))
      [] step = "threats"        -> [move |-> findThreatsMove(grid, a), grid |-> grid]
      [] step = "best"           -> BestMove(tier, [b EXCEPT !.Grid = grid], a)

\* A strategy from its k-th scan on.  `found` is what the scans before it
\* gave: [move, grid], the move NoMove when they found none.  When no scan
\* finds a cell, Hard goes on as makeMediumMove, Medium as makeEasyMove, and
\* Easy picks a candidate.
RECURSIVE Cascade(_, _, _, _, _)
Cascade(tier, k, b, a, found) ==
    IF found.move[1] >= 0
    THEN Returns(found.move, found.grid)
    ELSE IF k <= Len(CascadeSteps(tier))
    THEN Cascade(tier, k + 1, b, a,
                 CascadeStep(tier, CascadeSteps(tier)[k], b, a, found.grid))
    ELSE IF tier = Easy
    THEN EasyPick(b, a, found.grid)
    ELSE Cascade(tier - 1, 1, b, a, found)

makeEasyMove(b, a) == Cascade(Easy, 1, b, a, [move |-> NoMove, grid |-> b.Grid])

makeMediumMove(b, a) == Cascade(Medium, 1, b, a, [move |-> NoMove, grid |-> b.Grid])

makeHardMove(b, a) == Cascade(Hard, 1, b, a, [move |-> NoMove, grid |-> b.Grid])

\* MakeMove running the Easy strategy whatever the difficulty.
MakeMoveOf_AlwaysEasy(b, a) == makeEasyMove(b, a)

MakeMoveOf(b, a) ==
    CASE a.difficulty = Easy   -> makeEasyMove(b, a)
      [] a.difficulty = Medium -> makeMediumMove(b, a)
      [] a.difficulty = Hard   -> makeHardMove(b, a)
      [] OTHER                 -> makeEasyMove(b, a)

-----------------------------------------------------------------------------
(* Inputs.                                                                 *)

\* A board reached from NewBoard by the PlaceStone calls of `moves`, in order.
RECURSIVE Played(_, _)
Played(b, moves) ==
    IF moves = << >>
    THEN b
    ELSE Played(PlaceStoneBoard(b, moves[1][1], moves[1][2]), Tail(moves))

\* Recorded openings, Black and White alternating: Black's row 7 with a gap at
\* (7,7) against White's column 7 ending above (7,7); Black's diagonal ending
\* before (7,7) against White's anti-diagonal ending before (7,7).
OpeningAxes ==
    << <<7, 5>>, <<3, 7>>, <<7, 6>>, <<4, 7>>,
       <<7, 8>>, <<5, 7>>, <<7, 9>>, <<6, 7>> >>

OpeningDiagonals ==
    << <<3, 3>>, <<3, 11>>, <<4, 4>>, <<4, 10>>,
       <<5, 5>>, <<5, 9>>, <<6, 6>>, <<6, 8>> >>

Openings == { << >>, OpeningAxes, OpeningDiagonals }

\* The cells a caller names, in the order the bound admits them.
PlayOrder ==
    << <<7, 7>>, <<8, 8>>, <<8, 6>>, <<2, 7>>, <<7, 4>>, <<9, 9>> >>

PlayCells == { PlayOrder[i] : i \in 1 .. NumPlayCells }

\* Coordinates off the board, one past each edge.
OffBoard == { <<-1, 7>>, <<BoardSize, 7>>, <<7, -1>>, <<7, BoardSize>> }

Inputs == PlayCells \cup OffBoard

-----------------------------------------------------------------------------
(* The state machine of the Board API.                                     *)

SetBoard(b) ==
    /\ Grid' = b.Grid
    /\ CurrentTurn' = b.CurrentTurn
    /\ MoveHistory' = b.MoveHistory
    /\ GameFinished' = b.GameFinished

NoCall == [op |-> "NewBoard", row |-> 0, col |-> 0]

\* The window of a board that is used through its API alone.
NoWindow == [isProcessing |-> FALSE]

\* No evaluatePositionHard call was made.
NoScore == [before |-> 0, score |-> 0]

Init ==
    \E o \in Openings :
        LET b == Played(NewBoard, o)
        IN  /\ Grid = b.Grid
            /\ CurrentTurn = b.CurrentTurn
            /\ MoveHistory = b.MoveHistory
            /\ GameFinished = b.GameFinished
            /\ call = NoCall
            /\ ret = "nil"
            /\ snap = b
            /\ ai = NewAI(White, Easy)
            /\ aiMove = NoMove
            /\ calls = 0
            /\ gw = NoWindow
            /\ hardScore = NoScore

PlaceStone(row, col) ==
    /\ SetBoard(PlaceStoneBoard(Board, row, col))
    /\ call' = [op |-> "PlaceStone", row |-> row, col |-> col]
    /\ ret' = PlaceStoneErr(Board, row, col)
    /\ snap' = Board
    /\ UNCHANGED <<ai, aiMove, calls, gw, hardScore>>

Undo ==
    /\ SetBoard(UndoBoard(Board))
    /\ call' = [op |-> "Undo", row |-> 0, col |-> 0]
    /\ ret' = UndoErr(Board)
    /\ snap' = Board
    /\ UNCHANGED <<ai, aiMove, calls, gw, hardScore>>

Next ==
    \/ \E p \in Inputs : PlaceStone(p[1], p[2])
    \/ Undo

Spec == Init /\ [][Next]_vars

-----------------------------------------------------------------------------
(* CheckWin as a query.  It reads the grid alone, so the grids are drawn   *)
(* freely: LineLen cells of one axis, starting on the top edge, each empty *)
(* or holding either colour; every other field is that of NewBoard.        *)

LineStart == <<0, 7>>

LineCell(d, j) ==
    <<LineStart[1] + directions[d][1] * j, LineStart[2] + directions[d][2] * j>>

LineGrid(d, pat) ==
    [r \in Idx |-> [c \in Idx |->
        IF \E j \in 1 .. LineLen : LineCell(d, j - 1) = <<r, c>>
        THEN pat[CHOOSE j \in 1 .. LineLen : LineCell(d, j - 1) = <<r, c>>]
        ELSE Empty]]

QueryCells == { LineCell(d, j - 1) : d \in 1 .. 4, j \in 1 .. LineLen }

InitCheckWin ==
    \E d \in 1 .. 4 : \E pat \in [1 .. LineLen -> {Empty, Black, White}] :
        /\ Grid = LineGrid(d, pat)
        /\ CurrentTurn = NewBoard.CurrentTurn
        /\ MoveHistory = NewBoard.MoveHistory
        /\ GameFinished = NewBoard.GameFinished
        /\ call = NoCall
        /\ ret = "nil"
        /\ snap = Board
        /\ ai = NewAI(White, Easy)
        /\ aiMove = NoMove
        /\ calls = 0
        /\ gw = NoWindow
        /\ hardScore = NoScore

CheckWinCall(row, col) ==
    /\ call' = [op |-> "CheckWin", row |-> row, col |-> col]
    /\ ret' = IF CheckWin(Grid, row, col) THEN "true" ELSE "false"
    /\ snap' = Board
    /\ UNCHANGED <<Grid, CurrentTurn, MoveHistory, GameFinished, ai, aiMove,
                   calls, gw, hardScore>>

NextCheckWin == \E p \in QueryCells : CheckWinCall(p[1], p[2])

SpecCheckWin == InitCheckWin /\ [][NextCheckWin]_vars

-----------------------------------------------------------------------------
(* MakeMove as a function of the board and the agent.  The boards are the  *)
(* positions reached from NewBoard by the first moves of an opening        *)
(* followed by up to MaxStones stones on distinct cells of AICells; the    *)
(* agent has either colour and any difficulty.  MakeMove is called once on *)
(* each.                                                                   *)

AICells == { <<7, 7>>, <<8, 8>>, <<8, 6>> }

\* The sequences of at most n distinct cells of S.
RECURSIVE Lines(_, _)
Lines(S, n) ==
    IF n = 0
    THEN { << >> }
    ELSE LET shorter == Lines(S, n - 1)
         IN  shorter \cup
             { Append(q[1], q[2]) :
                 q \in { x \in shorter \X S :
                           \A i \in 1 .. Len(x[1]) : x[1][i] # x[2] } }

\* An opening in two corners of the top edge, far from the center.
OpeningCorners == << <<0, 0>>, <<0, 14>> >>

AIOpenings == Openings \cup { OpeningCorners }

\* The first moves of one of `openings` followed by one of `lines`, for any
\* agent.
InitAIWith(openings, lines) ==
    \E o \in openings : \E n \in 0 .. Len(o) : \E q \in lines :
    \E player \in {Black, White} : \E difficulty \in {Easy, Medium, Hard} :
        LET b == Played(NewBoard, SubSeq(o, 1, n) \o q)
        IN  /\ Grid = b.Grid
            /\ CurrentTurn = b.CurrentTurn
            /\ MoveHistory = b.MoveHistory
            /\ GameFinished = b.GameFinished
            /\ call = NoCall
            /\ ret = "nil"
            /\ snap = b
            /\ ai = NewAI(player, difficulty)
            /\ aiMove = NoMove
            /\ calls = 0
            /\ gw = NoWindow
            /\ hardScore = NoScore

InitAI == InitAIWith(AIOpenings, Lines(AICells, MaxStones))

\* ai.MakeMove(board): it returns one of the cells its strategy may return,
\* or panics (rand.Intn on a total weight that is not positive); either way
\* the board holds the grid the strategy left.
MakeMove ==
    /\ \E out \in {MakeMoveOf(Board, ai)} :
           /\ Grid' = out.grid
           /\ \/ \E m \in out.moves : aiMove' = m /\ ret' = "nil"
              \/ out.panic /\ aiMove' = NoMove /\ ret' = "panic"
    /\ call' = [op |-> "MakeMove", row |-> 0, col |-> 0]
    /\ snap' = Board
    /\ calls' = calls + 1
    /\ UNCHANGED <<CurrentTurn, MoveHistory, GameFinished, ai, gw, hardScore>>

NextAI == calls = 0 /\ MakeMove

SpecAI == InitAI /\ [][NextAI]_vars

-----------------------------------------------------------------------------
(* MakeMove called up to MaxCalls times in a row on the positions of the   *)
(* openings: the board and the agent are the same at every call.           *)

\* The positions of the corner opening and of the last moves of Black's row
\* against White's column.
InitAgain ==
    InitAIWith({ OpeningCorners, OpeningAxes }, { << >> })
      /\ (MoveHistory = << >> \/ Len(MoveHistory) >= 5 \/ MoveHistory[1] = <<0, 0>>)

NextAgain == calls < MaxCalls /\ MakeMove

SpecAgain == InitAgain /\ [][NextAgain]_vars

-----------------------------------------------------------------------------
(* The scans, detectors and scorers of the agent as queries on the         *)
(* positions of the openings: findThreatsMove on the board, the pattern    *)
(* detectors on its stones, evaluatePositionHard on its empty cells among  *)
(* ScoreCells.                                                             *)

\* Cells of the two outer rings and cells inside them.
ScoreOrder ==
    << <<0, 0>>, <<7, 7>>, <<1, 7>>, <<13, 13>>, <<2, 2>>, <<14, 3>>, <<6, 6>> >>

ScoreCells == { ScoreOrder[i] : i \in 1 .. NumScoreCells }

\* An opening in which Black, on its last move, joins a row of three and a
\* diagonal of three at (7,7), White playing apart on row 11.
OpeningCross ==
    << <<7, 6>>, <<11, 2>>, <<7, 8>>, <<11, 5>>, <<6, 6>>, <<11, 8>>,
       <<8, 8>>, <<11, 11>>, <<7, 7>> >>

InitScan == InitAIWith(AIOpenings \cup { OpeningCross }, { << >> })

BoolRet(v) == IF v THEN "true" ELSE "false"

findThreatsMoveCall ==
    /\ call' = [op |-> "findThreatsMove", row |-> 0, col |-> 0]
    /\ aiMove' = findThreatsMove(Grid, ai)
    /\ ret' = "nil"
    /\ snap' = Board
    /\ UNCHANGED <<Grid, CurrentTurn, MoveHistory, GameFinished, ai, calls, gw, hardScore>>

\* The detectors read the player from the cell, which holds a stone whenever
\* the agent calls them.
hasOpenFourCall(row, col) ==
    /\ Grid[row][col] # Empty
    /\ call' = [op |-> "hasOpenFour", row |-> row, col |-> col]
    /\ ret' = BoolRet(hasOpenFour(Grid, row, col))
    /\ snap' = Board
    /\ UNCHANGED <<Grid, CurrentTurn, MoveHistory, GameFinished, ai, aiMove,
                   calls, gw, hardScore>>

hasOpenThreeCall(row, col) ==
    /\ Grid[row][col] # Empty
    /\ call' = [op |-> "hasOpenThree", row |-> row, col |-> col]
    /\ ret' = BoolRet(hasOpenThree(Grid, row, col))
    /\ snap' = Board
    /\ UNCHANGED <<Grid, CurrentTurn, MoveHistory, GameFinished, ai, aiMove,
                   calls, gw, hardScore>>

hasDoubleThreeCall(row, col) ==
    /\ Grid[row][col] # Empty
    /\ call' = [op |-> "hasDoubleThree", row |-> row, col |-> col]
    /\ ret' = BoolRet(hasDoubleThree(Grid, row, col))
    /\ snap' = Board
    /\ UNCHANGED <<Grid, CurrentTurn, MoveHistory, GameFinished, ai, aiMove,
                   calls, gw, hardScore>>

\* evaluatePositionHard on an empty cell.  `hardScore` holds the score returned
\* and the score as it was before the border adjustment.
evaluatePositionHardCall(row, col) ==
    /\ Grid[row][col] = Empty
    /\ call' = [op |-> "evaluatePositionHard", row |-> row, col |-> col]
    /\ \E e \in {HardPatterns(evaluatePosition(Board, ai, row, col), ai, row, col)} :
           /\ hardScore' = [before |-> e.score, score |-> HardBorder(e, row, col).score]
           /\ Grid' = HardBorder(e, row, col).grid
    /\ ret' = "nil"
    /\ snap' = Board
    /\ UNCHANGED <<CurrentTurn, MoveHistory, GameFinished, ai, aiMove, calls, gw>>

NextScan ==
    \/ findThreatsMoveCall
    \/ \E p \in Cells : hasOpenFourCall(p[1], p[2])
    \/ \E p \in Cells : hasOpenThreeCall(p[1], p[2])
    \/ \E p \in Cells : hasDoubleThreeCall(p[1], p[2])
    \/ \E p \in ScoreCells : evaluatePositionHardCall(p[1], p[2])

SpecScan == InitScan /\ [][NextScan]_vars

-----------------------------------------------------------------------------
(* The game window.  The board variables are the board gw.board points to  *)
(* and `ai` is gw.ai.  The callbacks of the window run one at a time on    *)
(* the event thread; the goroutine started by handleClick runs beside      *)
(* them, and reads gw.board and gw.ai without synchronisation: each read   *)
(* yields the current value or one the field held since the goroutine was  *)
(* started.  gw.old keeps those earlier values, oldest first.              *)

ClickCells == { PlayOrder[i] : i \in 1 .. NumClickCells }

Difficulties == { Easy, Medium, Hard }

NoStone == [by |-> "none", colour |-> Empty, onClicked |-> TRUE]

\* NewGameWindow: a new board, the default agent, and the difficulty dialog
\* on top (whose SetSelected("Easy") runs the selection callback once).
NewGameWindow ==
    [isProcessing |-> FALSE,
     dialogs      |-> << "settings" >>,
     pc           |-> "idle",
     old          |-> << >>,
     clicks       |-> 0,
     games        |-> 0,
     placed       |-> NoStone]

InitUI ==
    /\ Grid = NewBoard.Grid
    /\ CurrentTurn = NewBoard.CurrentTurn
    /\ MoveHistory = NewBoard.MoveHistory
    /\ GameFinished = NewBoard.GameFinished
    /\ call = NoCall
    /\ ret = "nil"
    /\ snap = NewBoard
    /\ ai = NewAI(White, Easy)
    /\ aiMove = NoMove
    /\ calls = 0
    /\ gw = NewGameWindow
    /\ hardScore = NoScore

\* The values of gw.board and gw.ai a running goroutine may still read after
\* the event thread has replaced them.
Kept(boards) ==
    IF gw.pc \in {"sleeping", "placing"}
    THEN gw.old \o [i \in 1 .. Len(boards) |-> [board |-> boards[i], ai |-> ai]]
    ELSE << >>

\* The callback of showDifficultyDialog's select: a new agent, a new board.
selectDifficulty(difficulty) ==
    /\ gw.dialogs # << >>
    /\ gw.dialogs[Len(gw.dialogs)] = "settings"
    /\ gw.games < MaxGames
    /\ ai' = NewAI(White, difficulty)
    /\ SetBoard(NewBoard)
    /\ gw' = [gw EXCEPT !.old = Kept(<< Board >>), !.games = @ + 1]
    /\ call' = [op |-> "selectDifficulty", row |-> 0, col |-> 0]
    /\ ret' = "nil"
    /\ snap' = Board
    /\ UNCHANGED <<aiMove, calls, hardScore>>

\* "Start Game" of the difficulty dialog, "Return to Board" of the game-over
\* dialog: the dialog on top goes away.
closeDialog ==
    /\ gw.dialogs # << >>
    /\ gw' = [gw EXCEPT !.dialogs = SubSeq(@, 1, Len(@) - 1)]
    /\ call' = [op |-> "closeDialog", row |-> 0, col |-> 0]
    /\ ret' = "nil"
    /\ snap' = Board
    /\ UNCHANGED <<Grid, CurrentTurn, MoveHistory, GameFinished, ai, aiMove,
                   calls, hardScore>>

\* The "New Game" button, and "New Game" of the game-over dialog (which goes
\* away): gw.board = NewBoard(), then showDifficultyDialog, whose
\* SetSelected("Easy") runs the selection callback: a new Easy agent and a
\* second new board.  Neither looks at isProcessing.
newGameButton ==
    /\ IF gw.dialogs = << >> THEN TRUE ELSE gw.dialogs[Len(gw.dialogs)] = "gameover"
    /\ gw.games < MaxGames
    /\ ai' = NewAI(White, Easy)
    /\ SetBoard(NewBoard)
    /\ gw' = [gw EXCEPT
                 !.old = Kept(<< Board, NewBoard >>),
                 !.games = @ + 1,
                 !.dialogs = (IF @ = << >> THEN @ ELSE SubSeq(@, 1, Len(@) - 1))
                                 \o << "settings" >>]
    /\ call' = [op |-> "newGameButton", row |-> 0, col |-> 0]
    /\ ret' = "nil"
    /\ snap' = Board
    /\ UNCHANGED <<aiMove, calls, hardScore>>

\* The board after the Undo button: one Undo, and a second one if that left
\* White to move.
undoButtonBoard(b) ==
    IF UndoErr(b) # "nil"
    THEN b
    ELSE IF UndoBoard(b).CurrentTurn = White
    THEN UndoBoard(UndoBoard(b))
    ELSE UndoBoard(b)

undoButton ==
    /\ gw.dialogs = << >>
    /\ IF gw.isProcessing \/ GameFinished
       THEN UNCHANGED <<Grid, CurrentTurn, MoveHistory, GameFinished>>
       ELSE SetBoard(undoButtonBoard(Board))
    /\ call' = [op |-> "undoButton", row |-> 0, col |-> 0]
    /\ ret' = "nil"
    /\ snap' = Board
    /\ UNCHANGED <<ai, aiMove, calls, gw, hardScore>>

\* What handleClick(row, col) does: "busy" (returns at once), "invalid"
\* (off the board), "turn" (not Black's turn), "error" (PlaceStone failed),
\* "over" (the stone ended the game) or "go" (the goroutine is started).
handleClickCase(row, col) ==
    IF gw.isProcessing \/ GameFinished THEN "busy"
    ELSE IF row < 0 \/ row >= BoardSize \/ col < 0 \/ col >= BoardSize THEN "invalid"
    ELSE IF CurrentTurn # Black THEN "turn"
    ELSE IF PlaceStoneErr(Board, row, col) # "nil" THEN "error"
    ELSE IF PlaceStoneBoard(Board, row, col).GameFinished THEN "over"
    ELSE "go"

handleClickWindow(case) ==
    CASE case = "over" ->
             [gw EXCEPT !.dialogs = @ \o << "gameover" >>,
                        !.clicks = @ + 1,
                        !.placed = [by |-> "human", colour |-> CurrentTurn,
                                    onClicked |-> TRUE]]
      [] case = "go" ->
             [gw EXCEPT !.isProcessing = TRUE,
                        !.pc = "sleeping",
                        !.clicks = @ + 1,
                        !.placed = [by |-> "human", colour |-> CurrentTurn,
                                    onClicked |-> TRUE]]
      [] OTHER -> gw

handleClick(row, col) ==
    /\ gw.dialogs = << >>
    /\ handleClickCase(row, col) \in {"over", "go"} => gw.clicks < MaxClicks
    /\ SetBoard(IF handleClickCase(row, col) \in {"over", "go"}
                THEN PlaceStoneBoard(Board, row, col)
                ELSE Board)
    /\ gw' = handleClickWindow(handleClickCase(row, col))
    /\ call' = [op |-> "handleClick", row |-> row, col |-> col]
    /\ ret' = handleClickCase(row, col)
    /\ snap' = Board
    /\ UNCHANGED <<ai, aiMove, calls, hardScore>>

\* The board the goroutine's read number t of gw.board yields: 0 is the
\* board gw.board points to now, t > 0 the one kept at gw.old[t].
BoardRead(t) == IF t = 0 THEN Board ELSE gw.old[t].board

\* The board b written back to where read number t found it.
WriteBack(t, b, window) ==
    IF t = 0
    THEN SetBoard(b) /\ gw' = window
    ELSE /\ UNCHANGED <<Grid, CurrentTurn, MoveHistory, GameFinished>>
         /\ gw' = [window EXCEPT !.old[t].board = b]

\* The board the goroutine was started on is the oldest one kept, or the
\* current one if the field was not written since.
ClickedRead == IF gw.old = << >> THEN 0 ELSE 1

\* The goroutine after its sleep: aiRow, aiCol := gw.ai.MakeMove(gw.board).
AIMakeMove(t, u) ==
    /\ gw.pc = "sleeping"
    /\ \E out \in {MakeMoveOf(BoardRead(t), IF u = 0 THEN ai ELSE gw.old[u].ai)} :
           \/ \E m \in out.moves :
                  /\ aiMove' = m
                  /\ ret' = "nil"
                  /\ WriteBack(t, [BoardRead(t) EXCEPT !.Grid = out.grid],
                               [gw EXCEPT !.pc = "placing"])
           \/ /\ out.panic
              /\ aiMove' = NoMove
              /\ ret' = "panic"
              /\ WriteBack(t, [BoardRead(t) EXCEPT !.Grid = out.grid],
                           [gw EXCEPT !.pc = "panicked"])
    /\ call' = [op |-> "AIMakeMove", row |-> t, col |-> u]
    /\ snap' = BoardRead(t)
    /\ UNCHANGED <<ai, calls, hardScore>>

\* The window as the goroutine leaves it: the stone it wrote, if any, the
\* game-over dialog if that stone ended the game, isProcessing = false.
AIPlaceStoneWindow(t, b) ==
    [gw EXCEPT
        !.isProcessing = FALSE,
        !.pc = "idle",
        !.old = << >>,
        !.dialogs = IF aiMove[1] >= 0 /\ aiMove[2] >= 0
                       /\ PlaceStoneBoard(b, aiMove[1], aiMove[2]).GameFinished
                    THEN @ \o << "gameover" >>
                    ELSE @,
        !.placed = IF aiMove[1] >= 0 /\ aiMove[2] >= 0
                      /\ PlaceStoneErr(b, aiMove[1], aiMove[2]) = "nil"
                   THEN [by |-> "ai", colour |-> b.CurrentTurn,
                         onClicked |-> (t = ClickedRead)]
                   ELSE @]

\* The rest of the goroutine: if aiRow >= 0 && aiCol >= 0,
\* gw.board.PlaceStone(aiRow, aiCol) and the game-over test; then
\* gw.isProcessing = false.  The boards kept for it are dropped with it.
AIPlaceStone(t) ==
    /\ gw.pc = "placing"
    /\ IF t = 0
       THEN SetBoard(IF aiMove[1] >= 0 /\ aiMove[2] >= 0
                     THEN PlaceStoneBoard(Board, aiMove[1], aiMove[2])
                     ELSE Board)
       ELSE UNCHANGED <<Grid, CurrentTurn, MoveHistory, GameFinished>>
    /\ gw' = AIPlaceStoneWindow(t, BoardRead(t))
    /\ call' = [op |-> "AIPlaceStone", row |-> aiMove[1], col |-> aiMove[2]]
    /\ ret' = IF aiMove[1] >= 0 /\ aiMove[2] >= 0
              THEN PlaceStoneErr(BoardRead(t), aiMove[1], aiMove[2])
              ELSE "nil"
    /\ snap' = BoardRead(t)
    /\ UNCHANGED <<ai, aiMove, calls, hardScore>>

NextUI ==
    \/ \E d \in Difficulties : selectDifficulty(d)
    \/ closeDialog
    \/ newGameButton
    \/ undoButton
    \/ \E p \in ClickCells : handleClick(p[1], p[2])
    \/ \E t \in 0 .. Len(gw.old) : \E u \in 0 .. Len(gw.old) : AIMakeMove(t, u)
    \/ \E t \in 0 .. Len(gw.old) : AIPlaceStone(t)

SpecUI == InitUI /\ [][NextUI]_vars

-----------------------------------------------------------------------------
(* Vocabulary of the properties.                                           *)

Other(p) == IF p = Black THEN White ELSE Black

LastMove == MoveHistory[Len(MoveHistory)]

\* A stone at (row, col) lies in five consecutive in-bounds cells of one axis
\* that all hold stones of its colour.
FiveInRowAt(grid, row, col) ==
    /\ grid[row][col] # Empty
    /\ \E d \in 1 .. 4 : \E k \in 0 .. 4 : \A j \in 0 .. 4 :
          LET r == row + directions[d][1] * (j - k)
              c == col + directions[d][2] * (j - k)
          IN  /\ r \in Idx
              /\ c \in Idx
              /\ grid[r][c] = grid[row][col]

SameBoard ==
    /\ Grid' = Grid
    /\ CurrentTurn' = CurrentTurn
    /\ MoveHistory' = MoveHistory
    /\ GameFinished' = GameFinished

Placed == call.op = "PlaceStone" /\ ret = "nil"

-----------------------------------------------------------------------------
(* C1. Round trip: an Undo that immediately follows a successful           *)
(* PlaceStone, winning moves included, leaves every grid cell, the player  *)
(* to move, the history length and the terminal flag as they were before   *)
(* the PlaceStone.                                                         *)
C1_UndoRestoresSnapshot ==
    [][ (Placed /\ call'.op = "Undo")
          => /\ Grid' = snap.Grid
             /\ CurrentTurn' = snap.CurrentTurn
             /\ Len(MoveHistory') = Len(snap.MoveHistory)
             /\ GameFinished' = snap.GameFinished ]_vars

(* C2. After a successful PlaceStone(row, col) the cell holds the player   *)
(* who was to move and is the last history entry; a move completing five   *)
(* in a row sets the terminal flag and keeps the player to move, any other *)
(* move leaves the flag false and hands the move to the other player; no   *)
(* other cell changes.                                                     *)
C2_PlaceStoneEffect ==
    [][ (call'.op = "PlaceStone" /\ ret' = "nil")
          => LET row == call'.row
                 col == call'.col
             IN  /\ Grid'[row][col] = CurrentTurn
                 /\ CurrentTurn \in {Black, White}
                 /\ MoveHistory' = Append(MoveHistory, <<row, col>>)
                 /\ \A p \in Cells :
                       p # <<row, col>> => Grid'[p[1]][p[2]] = Grid[p[1]][p[2]]
                 /\ IF FiveInRowAt(Grid', row, col)
                    THEN GameFinished' /\ CurrentTurn' = CurrentTurn
                    ELSE /\ ~GameFinished /\ ~GameFinished'
                         /\ CurrentTurn' = Other(CurrentTurn) ]_vars

\* A move that completed five in a row has been placed.
C2_Witness == Placed /\ GameFinished /\ FiveInRowAt(Grid, call.row, call.col)

(* C3. The stone recorded at history index i (counted from 0) is Black     *)
(* when i is even and White when i is odd.                                 *)
C3_HistoryParity ==
    \A i \in 1 .. Len(MoveHistory) :
        Grid[MoveHistory[i][1]][MoveHistory[i][2]]
            = (IF (i - 1) % 2 = 0 THEN Black ELSE White)

(* C4. While the game is not finished the player to move is the one who    *)
(* did not place the most recent stone, and Black on an empty history.     *)
C4_TurnIsNotLastMover ==
    ~GameFinished =>
        CurrentTurn = (IF Len(MoveHistory) = 0
                       THEN Black
                       ELSE Other(Grid[LastMove[1]][LastMove[2]]))

(* C5. The terminal flag is set exactly when the history is non-empty and  *)
(* CheckWin holds at its last entry; while the flag is clear no stone on   *)
(* the board lies in a five in a row.                                      *)
C5_FlagIffLastMoveWins ==
    /\ GameFinished <=>
          (Len(MoveHistory) > 0 /\ CheckWin(Grid, LastMove[1], LastMove[2]))
    /\ ~GameFinished => \A p \in Cells : ~FiveInRowAt(Grid, p[1], p[2])

\* Undo has just cleared the flag of a finished game.
C5_Witness ==
    /\ call.op = "Undo" /\ ret = "nil"
    /\ snap.GameFinished /\ ~GameFinished
    /\ Len(MoveHistory) > 0

(* C6. The history length equals the number of non-empty cells, the        *)
(* history entries are pairwise distinct, and each names a non-empty cell, *)
(* after failed calls too.                                                 *)
C6_HistoryMatchesGrid ==
    /\ Len(MoveHistory)
          = Cardinality({p \in Cells : Grid[p[1]][p[2]] # Empty})
    /\ \A i, j \in 1 .. Len(MoveHistory) :
          i # j => MoveHistory[i] # MoveHistory[j]
    /\ \A i \in 1 .. Len(MoveHistory) :
          /\ MoveHistory[i] \in Cells
          /\ Grid[MoveHistory[i][1]][MoveHistory[i][2]] # Empty

\* A PlaceStone on an occupied cell has just failed.
C6_Witness ==
    /\ call.op = "PlaceStone" /\ ret = "position already occupied"
    /\ Len(MoveHistory) > 0

(* C7. PlaceStone returns an error when the cell is off the board, when it *)
(* is occupied and when the terminal flag is set, and then leaves grid,    *)
(* player to move, history and flag unchanged; so no PlaceStone succeeds   *)
(* on a finished game.                                                     *)
C7_PlaceStoneRejects ==
    [][ (/\ call'.op = "PlaceStone"
         /\ \/ ~isValidPosition(call'.row, call'.col)
            \/ Grid[call'.row][call'.col] # Empty
            \/ GameFinished)
          => ret' # "nil" /\ SameBoard ]_vars

\* A PlaceStone on an empty cell of a finished game has been refused.
C7_Witness ==
    /\ call.op = "PlaceStone" /\ ret = "game is already finished"
    /\ GameFinished /\ Grid[call.row][call.col] = Empty

(* C8. Undo on an empty history returns an error and changes nothing; Undo *)
(* right after the first successful move on a new board succeeds and       *)
(* yields the new board again.                                             *)
C8_UndoEdges ==
    [][ /\ (call'.op = "Undo" /\ Len(MoveHistory) = 0)
            => ret' = "no moves to undo" /\ SameBoard
        /\ (Placed /\ snap = NewBoard /\ call'.op = "Undo")
            => ret' = "nil" /\ Board' = NewBoard ]_vars

\* The first move of a new board has just been undone.
C8_Witness ==
    /\ call.op = "Undo" /\ ret = "nil"
    /\ Len(snap.MoveHistory) = 1 /\ snap.CurrentTurn = White
    /\ Board = NewBoard

(* C9. For every grid and every in-bounds cell, whatever it holds,         *)
(* CheckWin returns true exactly when on some axis the contiguous run of   *)
(* one player's stones through the cell is at least five long, and it      *)
(* changes no board field.                                                 *)
C9_CheckWinIffRunOfFive ==
    call.op = "CheckWin" =>
        /\ (ret = "true") <=> FiveInRowAt(Grid, call.row, call.col)
        /\ Board = snap

(* C10. When MakeMove returns, every grid cell, the player to move, the    *)
(* move history and the terminal flag of the board are what they were when *)
(* MakeMove was called, at every difficulty and for either colour.         *)
C10_MakeMoveRestoresBoard ==
    (call.op = "MakeMove" /\ ret = "nil") =>
        /\ \A p \in Cells : Grid[p[1]][p[2]] = snap.Grid[p[1]][p[2]]
        /\ CurrentTurn = snap.CurrentTurn
        /\ MoveHistory = snap.MoveHistory
        /\ GameFinished = snap.GameFinished

\* A Hard agent has returned a cell of a board on which stones were placed,
\* after its scans and scorers wrote and took back their stones.
C10_Witness ==
    /\ call.op = "MakeMove" /\ ret = "nil"
    /\ ai.difficulty = Hard
    /\ Len(MoveHistory) > 0
    /\ aiMove # NoMove
    /\ Grid[aiMove[1]][aiMove[2]] = Empty

-----------------------------------------------------------------------------
(* Vocabulary of the agent's claims.                                       *)

MadeMove == call.op = "MakeMove" /\ ret = "nil"

EmptyCells(grid) == { p \in Cells : grid[p[1]][p[2]] = Empty }

\* The first cell of S in row-major order.
RowMajorFirst(S) ==
    CHOOSE p \in S : \A q \in S : p[1] < q[1] \/ (p[1] = q[1] /\ p[2] <= q[2])

\* The empty cells on which a stone of `player` completes five in a row:
\* five consecutive in-bounds cells of one axis, the cell among them, the
\* other four holding stones of `player`.
WinCells(grid, player) ==
    { p \in EmptyCells(grid) :
        \E d \in 1 .. 4 : \E k \in 0 .. 4 : \A j \in (0 .. 4) \ {k} :
            LET r == p[1] + directions[d][1] * (j - k)
                c == p[2] + directions[d][2] * (j - k)
            IN  r \in Idx /\ c \in Idx /\ grid[r][c] = player }

(* C11. MakeMove returns, and it returns (-1,-1) only if the board has no   *)
(* empty cell; whenever a cell is empty it returns an in-bounds cell that   *)
(* is empty on the board it was given.                                      *)
C11_MakeMoveReturnsEmptyCell ==
    call.op = "MakeMove" =>
        /\ ret = "nil"
        /\ aiMove = NoMove => EmptyCells(snap.Grid) = {}
        /\ EmptyCells(snap.Grid) # {} => aiMove \in EmptyCells(snap.Grid)

\* An Easy agent has drawn its cell among candidates of which some have a
\* negative weight.
C11_Witness ==
    /\ MadeMove
    /\ ai.difficulty = Easy
    /\ snap.MoveHistory = OpeningCorners
    /\ aiMove \in EmptyCells(snap.Grid)

(* C12. At every difficulty, if some empty cell completes five in a row for *)
(* the agent, MakeMove returns the row-major-first such cell; otherwise, if *)
(* some empty cell completes five in a row for the opponent, it returns the *)
(* row-major-first such cell.                                               *)
C12_WinThenBlockFirst ==
    MadeMove =>
        LET own  == WinCells(snap.Grid, ai.player)
            opp  == WinCells(snap.Grid, Other(ai.player))
        IN  IF own # {}
            THEN aiMove = RowMajorFirst(own)
            ELSE opp # {} => aiMove = RowMajorFirst(opp)

\* An Easy agent that cannot win has blocked the opponent's four.
C12_Witness ==
    /\ MadeMove
    /\ ai.difficulty = Easy
    /\ WinCells(snap.Grid, ai.player) = {}
    /\ WinCells(snap.Grid, Other(ai.player)) # {}
    /\ aiMove = RowMajorFirst(WinCells(snap.Grid, Other(ai.player)))

\* The opponent stones the walk of findThreatsMove counts from p along dir
\* in sense s (1 or -1): the run of stones of `who` next to p, three at most.
IsStoneOf(grid, who, r, c) == r \in Idx /\ c \in Idx /\ grid[r][c] = who

WalkCount(grid, who, p, dir, s) ==
    IF ~IsStoneOf(grid, who, p[1] + s * dir[1], p[2] + s * dir[2]) THEN 0
    ELSE IF ~IsStoneOf(grid, who, p[1] + s * dir[1] * 2, p[2] + s * dir[2] * 2) THEN 1
    ELSE IF ~IsStoneOf(grid, who, p[1] + s * dir[1] * 3, p[2] + s * dir[2] * 3) THEN 2
    ELSE 3

\* That walk ended on the boundary or on a stone that is not of `who`.
WalkBlocked(grid, who, p, dir, s) ==
    LET n == WalkCount(grid, who, p, dir, s) + 1
        r == p[1] + s * dir[1] * n
        c == p[2] + s * dir[2] * n
    IN  /\ n <= 3
        /\ \/ r \notin Idx
           \/ c \notin Idx
           \/ grid[r][c] \notin {Empty, who}

\* The empty cells that findThreatsMove is to report against stones of `who`.
ThreatCells(grid, who) ==
    { p \in EmptyCells(grid) : \E d \in 1 .. 4 :
        /\ WalkCount(grid, who, p, directions[d], 1)
             + WalkCount(grid, who, p, directions[d], -1) >= 2
        /\ ~ ( WalkBlocked(grid, who, p, directions[d], 1)
               /\ WalkBlocked(grid, who, p, directions[d], -1) ) }

\* Two MakeMove calls in a row, both returning, on the same board.
CalledAgain ==
    /\ MadeMove
    /\ call'.op = "MakeMove" /\ ret' = "nil"
    /\ snap' = snap

\* The Easy agent reaches its weighted draw on the board of the last call:
\* there are stones, and no cell to win on, to block a win on or to block a
\* threat on.
EasyDraws ==
    /\ ai.difficulty = Easy
    /\ EmptyCells(snap.Grid) # Cells
    /\ WinCells(snap.Grid, ai.player) = {}
    /\ WinCells(snap.Grid, Other(ai.player)) = {}
    /\ ThreatCells(snap.Grid, Other(ai.player)) = {}

(* C13, as stated. Two MakeMove calls on boards with identical grid,        *)
(* history, turn and terminal flag return the same cell, at every           *)
(* difficulty.                                                              *)
C13_SameBoardSameCell ==
    [][ CalledAgain => aiMove' = aiMove ]_vars

(* C13, amended. Two MakeMove calls on identical boards return the same     *)
(* cell at Medium and Hard, and at Easy whenever the board is empty or has  *)
(* a cell to win on, to block a win on or to block a threat on; otherwise   *)
(* the Easy agent returns a cell drawn at random.                           *)
C13_SameCellButForEasyDraw ==
    [][ CalledAgain => (aiMove' = aiMove \/ EasyDraws) ]_vars

\* A Medium agent has answered a second call on a board with stones.
C13_Witness ==
    /\ MadeMove
    /\ calls = 2
    /\ ai.difficulty = Medium
    /\ MoveHistory # << >>
    /\ aiMove \in EmptyCells(Grid)

(* C14. On a board with no stones MakeMove returns the center cell (7,7) at *)
(* every difficulty; at Medium and Hard the center is the unique arg-max of *)
(* the position score.                                                      *)
C14_EmptyBoardCenter ==
    (MadeMove /\ EmptyCells(snap.Grid) = Cells) =>
        /\ aiMove = <<BoardSize \div 2, BoardSize \div 2>>
        /\ ai.difficulty \in {Medium, Hard} =>
               \A p \in Cells \ {aiMove} :
                   TierScore(ai.difficulty, snap, ai, p[1], p[2]).score
                     < TierScore(ai.difficulty, snap, ai, aiMove[1], aiMove[2]).score

\* A Hard agent has moved on the board with no stones.
C14_Witness ==
    /\ MadeMove
    /\ EmptyCells(snap.Grid) = Cells
    /\ ai.difficulty = Hard
    /\ aiMove = <<7, 7>>

(* C15. findThreatsMove returns the row-major-first empty cell for which,   *)
(* on some axis, the two 3-step walks count at least 2 opponent stones      *)
(* while fewer than 2 of them ended blocked by the boundary or by a stone   *)
(* that is not the opponent's; it returns (-1,-1) exactly when no empty     *)
(* cell is such.                                                            *)
C15_FindThreatsFirstCell ==
    call.op = "findThreatsMove" =>
        LET threats == ThreatCells(Grid, Other(ai.player))
        IN  aiMove = IF threats = {} THEN NoMove ELSE RowMajorFirst(threats)

\* findThreatsMove has reported the first of several threat cells.
C15_Witness ==
    /\ call.op = "findThreatsMove"
    /\ Cardinality(ThreatCells(Grid, Other(ai.player))) > 1
    /\ aiMove = RowMajorFirst(ThreatCells(Grid, Other(ai.player)))

\* The board turned by 90 degrees: cell p of the board is cell RotCell(p) of
\* the turned board.
RotCell(p) == <<p[2], BoardSize - 1 - p[1]>>

RotGrid(grid) == [a \in Idx |-> [b \in Idx |-> grid[BoardSize - 1 - b][a]]]

(* C16. hasOpenFour, hasOpenThree and hasDoubleThree give, for every board  *)
(* and occupied cell, the verdict they give for the board turned by 90      *)
(* degrees and the cell mapped accordingly.                                 *)
C16_DetectorsRotationInvariant ==
    LET p == RotCell(<<call.row, call.col>>)
    IN  /\ call.op = "hasOpenFour" =>
               ret = BoolRet(hasOpenFour(RotGrid(Grid), p[1], p[2]))
        /\ call.op = "hasOpenThree" =>
               ret = BoolRet(hasOpenThree(RotGrid(Grid), p[1], p[2]))
        /\ call.op = "hasDoubleThree" =>
               ret = BoolRet(hasDoubleThree(RotGrid(Grid), p[1], p[2]))

\* hasDoubleThree has found the double three made of a row and a diagonal.
C16_Witness ==
    /\ call.op = "hasDoubleThree"
    /\ ret = "true"
    /\ MoveHistory = OpeningCross

(* C18. For every empty cell of the outer two rings, the score              *)
(* evaluatePositionHard returns is not greater than the score the cell has  *)
(* immediately before the halving step.                                     *)
C18_BorderHalvingReduces ==
    (call.op = "evaluatePositionHard" /\ OnBorder(call.row, call.col)) =>
        hardScore.score <= hardScore.before

\* C17: in the game window every stone the human places is Black, and every
\* stone the AI goroutine's PlaceStone writes is White and lands on the board
\* on which the human's preceding Black stone was placed.
C17_HumanBlackAIWhite ==
    /\ gw.placed.by = "human" => gw.placed.colour = Black
    /\ gw.placed.by = "ai" => gw.placed.colour = White /\ gw.placed.onClicked

====
